---- MODULE Spec2Model ----
(***************************************************************************)
(* A model of the two command line tools of the repository:                *)
(*   sync_skill.py        backup / sync / package / project update         *)
(*   create_workflow.py   GitHub Actions workflow generator                *)
(* Each behaviour is one invocation sequence of one of the tools on a small *)
(* file system.  File system calls that can raise take their outcome from  *)
(* an "io" argument chosen by the environment.                             *)
(***************************************************************************)
EXTENDS Integers, Sequences, FiniteSets, TLC

VARIABLES entry, pc, exit_code,
          \* sync_skill.py
          fs, fs0, answer, response, backup, success, packaged,
          updated_project, stdout, sync_faults,
          \* create_workflow.py
          argv, gfs, stderr, runs, last

gen_vars == <<argv, gfs, stderr, runs, last>>

sync_vars == <<fs, fs0, answer, response, backup, success, packaged,
               updated_project, stdout, sync_faults>>

vars == <<entry, pc, exit_code, sync_vars, gen_vars>>

(* ------------------------------ bounds -------------------------------- *)

\* longest line typed at the confirmation prompt
MaxLen == 3

\* invocations of create_workflow.py in a row
MaxRuns == 2

(* ------------------------------ values -------------------------------- *)

None == "None"

\* characters a typed answer is made of; " " stands for any white space
Alphabet == {" ", "y", "Y", "e", "s", "n"}

Lines == UNION {[1..k -> Alphabet] : k \in 0..MaxLen}

\* a directory: whether it exists and the entries below it (relative paths)
NoDir == [exists |-> FALSE, entries |-> {}]

Dir(es) == [exists |-> TRUE, entries |-> es]

\* a single file holding a tar archive
NoFile == [exists |-> FALSE, members |-> <<>>, mtime |-> "none", torn |-> FALSE]

File(ms, t, torn) == [exists |-> TRUE, members |-> ms, mtime |-> t, torn |-> torn]

Entry(p, k, d) == [path |-> p, kind |-> k, data |-> d]

\* the skill folder of the project
SourceTree ==
    Dir({ Entry(<<"SKILL.md">>, "file", "new"),
          Entry(<<"scripts">>, "dir", ""),
          Entry(<<"scripts", "create_workflow.py">>, "file", "new"),
          Entry(<<"assets">>, "dir", "") })

\* a skill installed by an earlier run
InstalledTree ==
    Dir({ Entry(<<"SKILL.md">>, "file", "old"),
          Entry(<<"LICENSE.txt">>, "file", "old") })

OldPackage == File(<<[name |-> <<"SKILL.md">>, data |-> "old"]>>, "old", FALSE)

\* values of datetime.now().strftime("%Y%m%d_%H%M%S")
Timestamps == {"20260101_120000", "20260101_120001"}

(* ------------------------------ paths --------------------------------- *)

Parent(p) == SubSeq(p, 1, Len(p) - 1)

Name(p) == p[Len(p)]

IsPrefix(b, p) == Len(b) <= Len(p) /\ SubSeq(p, 1, Len(b)) = b

\* PurePath.relative_to: the part of p below base, ValueError otherwise
relative_to(p, base) ==
    IF IsPrefix(base, p) THEN SubSeq(p, Len(base) + 1, Len(p))
    ELSE <<"ValueError">>

get_paths ==
    LET project_dir == <<"project">>
        dest_skill == <<"~", ".claude", "plugins", "cache",
                        "anthropic-agent-skills", "example-skills",
                        "a5bcdd7e58cd", "skills", "github-pages-deploy">>
    IN [project_dir |-> project_dir,
        source_skill |-> project_dir \o <<"github-pages-deploy-skill">>,
        dest_skill |-> dest_skill,
        skills_dir |-> Parent(dest_skill)]

(* -------------------------- environment io ---------------------------- *)

\* a tree in which every entry lies below a directory of the tree
Closed(es) ==
    \A e \in es : Len(e.path) > 1 =>
        \E d \in es : d.kind = "dir" /\ d.path = Parent(e.path)

Partial(d) == {Dir(s) : s \in {t \in SUBSET d.entries : t # d.entries /\ Closed(t)}}

\* shutil.copytree of d: all of it, or an exception after part of it
CopyIO(d) ==
    {[ok |-> TRUE, dir |-> d]} \cup {[ok |-> FALSE, dir |-> x] : x \in {NoDir} \cup Partial(d)}

\* shutil.rmtree of d: all of it, or an exception with something left
RmIO(d) ==
    {[ok |-> TRUE, dir |-> NoDir]}
        \cup {[ok |-> FALSE, dir |-> x] : x \in {d} \cup (Partial(d) \ {Dir({})})}

\* what the environment does to the file system calls of sync_skill_files
SyncIO(fsys) ==
    [mkdir : IF fsys.skills_dir THEN {TRUE} ELSE BOOLEAN,
     rm : IF fsys.dest.exists THEN RmIO(fsys.dest) ELSE {[ok |-> TRUE, dir |-> NoDir]},
     cp : CopyIO(fsys.source)]

\* the calls of sync_skill_files the environment makes fail
Faults(io) ==
    {x \in {"mkdir", "rmtree", "copytree"} :
        \/ x = "mkdir" /\ ~io.mkdir
        \/ x = "rmtree" /\ ~io.rm.ok
        \/ x = "copytree" /\ ~io.cp.ok}

(* --------------------------- sync_skill.py ---------------------------- *)
\* Each function gives the file system it leaves, what it returns, whether an
\* exception leaves it, and the lines it prints (their fixed part).

backup_skill(fsys, ts, io) ==
    IF ~fsys.dest.exists
    THEN [fs |-> fsys, ret |-> None,
          out |-> <<"[INFO] No existing skill found, skipping backup">>]
    ELSE IF fsys.backups[ts].exists
         THEN \* copytree onto an existing path: FileExistsError, caught
              [fs |-> fsys, ret |-> None,
               out |-> <<"[ERROR] Failed to create backup: ">>]
         ELSE IF io.ok
              THEN [fs |-> [fsys EXCEPT !.backups[ts] = Dir(fsys.dest.entries)],
                    ret |-> ts, out |-> <<"[OK] Created backup: ">>]
              ELSE [fs |-> [fsys EXCEPT !.backups[ts] = io.dir], ret |-> None,
                    out |-> <<"[ERROR] Failed to create backup: ">>]

\* a sync_skill_files that calls rmtree whether or not dest_skill exists
sync_copy_rmtree_always(fsys, io) ==
    IF ~fsys.skills_dir /\ ~io.mkdir
    THEN [fs |-> fsys, ret |-> FALSE, raised |-> TRUE, out |-> <<>>]
    ELSE LET made == [fsys EXCEPT !.skills_dir = TRUE]
             rm == <<"[INFO] Removing existing skill directory: ">>
         IN IF ~made.dest.exists \/ ~io.rm.ok
            THEN [fs |-> [made EXCEPT !.dest = io.rm.dir],
                  ret |-> FALSE, raised |-> TRUE, out |-> rm]
            ELSE IF io.cp.ok
                 THEN [fs |-> [made EXCEPT !.dest = Dir(made.source.entries)],
                       ret |-> TRUE, raised |-> FALSE,
                       out |-> rm \o <<"[OK] Synced skill files from ", "[OK] To ">>]
                 ELSE [fs |-> [made EXCEPT !.dest = io.cp.dir],
                       ret |-> FALSE, raised |-> FALSE,
                       out |-> rm \o <<"[ERROR] Failed to sync skill files: ">>]

\* sync_skill_files past its check of the source
sync_copy(fsys, io) ==
    IF ~fsys.skills_dir /\ ~io.mkdir
    THEN [fs |-> fsys, ret |-> FALSE, raised |-> TRUE, out |-> <<>>]
    ELSE LET made == [fsys EXCEPT !.skills_dir = TRUE]
             rm == IF made.dest.exists
                   THEN <<"[INFO] Removing existing skill directory: ">> ELSE <<>>
         IN IF made.dest.exists /\ ~io.rm.ok
            THEN [fs |-> [made EXCEPT !.dest = io.rm.dir],
                  ret |-> FALSE, raised |-> TRUE, out |-> rm]
            ELSE IF io.cp.ok
                 THEN [fs |-> [made EXCEPT !.dest = Dir(made.source.entries)],
                       ret |-> TRUE, raised |-> FALSE,
                       out |-> rm \o <<"[OK] Synced skill files from ", "[OK] To ">>]
                 ELSE [fs |-> [made EXCEPT !.dest = io.cp.dir],
                       ret |-> FALSE, raised |-> FALSE,
                       out |-> rm \o <<"[ERROR] Failed to sync skill files: ">>]

\* a sync_skill_files that does not look for the source first
sync_skill_files_unchecked(fsys, io) == sync_copy(fsys, io)

sync_skill_files(fsys, io) ==
    IF ~fsys.source.exists
    THEN [fs |-> fsys, ret |-> FALSE, raised |-> FALSE,
          out |-> <<"[ERROR] Source skill directory not found: ">>]
    ELSE sync_copy(fsys, io)

RECURSIVE SetToSeq(_)
\* the order in which Path.rglob yields the entries
SetToSeq(S) ==
    IF S = {} THEN <<>>
    ELSE LET x == CHOOSE y \in S : TRUE IN <<x>> \o SetToSeq(S \ {x})

is_file(item) == item.kind = "file"

\* member names taken relative to the parent of dest_skill
arcname_below_parent(item) ==
    LET dest_skill == get_paths.dest_skill
    IN relative_to(dest_skill \o item.path, Parent(dest_skill))

\* the name package_skill gives the tar member of an entry of dest_skill
arcname(item) ==
    LET dest_skill == get_paths.dest_skill
    IN relative_to(dest_skill \o item.path,
                   Parent(dest_skill) \o <<"github-pages-deploy">>)

\* the members the loop of package_skill adds, in order
tar_members(dest) ==
    LET items == SetToSeq(dest.entries)
        files == SelectSeq(items, is_file)
    IN [i \in 1..Len(files) |-> [name |-> arcname(files[i]), data |-> files[i].data]]

\* unlink, tarfile.open, and the number of members added before tar.add raises
PackageIO(fsys) ==
    [unlink : IF fsys.package.exists THEN BOOLEAN ELSE {TRUE},
     open : BOOLEAN,
     added : 0..Len(tar_members(fsys.dest))]

package_skill(fsys, io) ==
    LET failed == <<"[ERROR] Failed to package skill: ">>
    IN IF fsys.package.exists /\ ~io.unlink
       THEN [fs |-> fsys, ret |-> FALSE, out |-> failed]
       ELSE LET gone == [fsys EXCEPT !.package = NoFile]
                rm == IF fsys.package.exists
                      THEN <<"[INFO] Removed old package: ">> ELSE <<>>
                all == tar_members(fsys.dest)
            IN IF ~gone.skills_dir \/ ~io.open
               THEN [fs |-> gone, ret |-> FALSE, out |-> rm \o failed]
               ELSE IF io.added < Len(all)
                    THEN [fs |-> [gone EXCEPT !.package =
                                     File(SubSeq(all, 1, io.added), "new", TRUE)],
                          ret |-> FALSE, out |-> rm \o failed]
                    ELSE [fs |-> [gone EXCEPT !.package = File(all, "new", FALSE)],
                          ret |-> TRUE,
                          out |-> rm \o <<"[OK] Packaged skill to: ",
                                          "[OK] Package size: ">>]

\* shutil.copy2: done, or an exception before or after the target is opened
CopyFileIO == [ok : BOOLEAN, opened : BOOLEAN]

update_project_package(fsys, io) ==
    IF ~fsys.package.exists
    THEN [fs |-> fsys, ret |-> FALSE, out |-> <<"[WARNING] Package not found: ">>]
    ELSE IF io.ok
         THEN \* copy2: contents and modification time
              [fs |-> [fsys EXCEPT !.project_package = fsys.package], ret |-> TRUE,
               out |-> <<"[OK] Updated project package: ">>]
         ELSE [fs |-> IF io.opened
                      THEN [fsys EXCEPT !.project_package = File(<<>>, "new", TRUE)]
                      ELSE fsys,
               ret |-> FALSE,
               out |-> <<"[ERROR] Failed to update project package: ">>]

show_summary(ok, pkgd, upd) ==
    <<"SYNC SUMMARY", IF ok THEN "Status:      SUCCESS" ELSE "Status:      FAILED">>
        \o (IF pkgd THEN <<"Packaged:    YES">> ELSE <<>>)
        \o (IF upd THEN <<"Project:     UPDATED">> ELSE <<>>)

isspace(c) == c = " "

RECURSIVE lstrip(_)
lstrip(s) == IF s # <<>> /\ isspace(Head(s)) THEN lstrip(Tail(s)) ELSE s

RECURSIVE rstrip(_)
rstrip(s) ==
    IF s # <<>> /\ isspace(s[Len(s)]) THEN rstrip(SubSeq(s, 1, Len(s) - 1)) ELSE s

strip(s) == rstrip(lstrip(s))

tolower(c) == CASE c = "Y" -> "y" [] c = "E" -> "e" [] c = "S" -> "s" [] OTHER -> c

lower(s) == [i \in 1..Len(s) |-> tolower(s[i])]

\* an answer is taken for a yes when it begins with a y
confirmed_by_initial(r) == r # <<>> /\ r[1] = "y"

\* response in ['y', 'yes']
confirmed(r) == r \in {<<"y">>, <<"y", "e", "s">>}

(* ------------------------- sync_skill.py: main ------------------------ *)

Exit(code) == pc' = "exit" /\ exit_code' = code

\* the handlers around main(): an exception leaves it
Unexpected == <<"[ERROR] Unexpected error: ">>

main_check_source ==
    /\ entry = "main" /\ pc = "check_source"
    /\ IF ~fs.source.exists
       THEN /\ stdout' = stdout \o <<"[ERROR] Source skill directory not found!">>
            /\ Exit(1)
       ELSE /\ stdout' = stdout \o <<"[WARNING] This will overwrite the installed skill",
                                     "[INFO] A backup will be created automatically.">>
            /\ pc' = "prompt" /\ UNCHANGED exit_code
    /\ UNCHANGED <<entry, fs, fs0, answer, response, backup, success, packaged,
                   updated_project, sync_faults, gen_vars>>

main_prompt ==
    /\ entry = "main" /\ pc = "prompt"
    /\ \/ \E line \in Lines :
            /\ answer' = <<line>>
            /\ response' = lower(strip(line))
            /\ IF ~confirmed(response')
               THEN stdout' = stdout \o <<"[INFO] Sync cancelled.">> /\ Exit(0)
               ELSE pc' = "backup" /\ UNCHANGED <<exit_code, stdout>>
       \/ \* KeyboardInterrupt while reading
          /\ stdout' = stdout \o <<"[INFO] Sync cancelled by user.">>
          /\ UNCHANGED <<answer, response>> /\ Exit(0)
       \/ \* EOFError while reading
          /\ stdout' = stdout \o Unexpected
          /\ UNCHANGED <<answer, response>> /\ Exit(1)
    /\ UNCHANGED <<entry, fs, fs0, backup, success, packaged, updated_project,
                   sync_faults, gen_vars>>

main_backup ==
    /\ entry = "main" /\ pc = "backup"
    /\ \E ts \in Timestamps, io \in CopyIO(fs.dest) :
          LET r == backup_skill(fs, ts, io)
          IN /\ fs' = r.fs /\ backup' = r.ret
             /\ stdout' = stdout \o <<"[STEP 1] Creating backup...">> \o r.out
    /\ pc' = "sync"
    /\ UNCHANGED <<entry, fs0, answer, response, success, packaged,
                   updated_project, sync_faults, exit_code, gen_vars>>

main_sync ==
    /\ entry = "main" /\ pc = "sync"
    /\ \E io \in SyncIO(fs) :
          LET r == sync_skill_files(fs, io)
              head == stdout \o <<"[STEP 2] Syncing skill files...">> \o r.out
          IN /\ fs' = r.fs
             /\ sync_faults' = Faults(io)
             /\ success' = (~r.raised /\ r.ret)
             /\ IF r.raised
                THEN stdout' = head \o Unexpected /\ Exit(1)
                ELSE IF ~r.ret
                     THEN stdout' = head \o <<"[ERROR] Sync failed!">> /\ Exit(1)
                     ELSE stdout' = head /\ pc' = "package" /\ UNCHANGED exit_code
    /\ UNCHANGED <<entry, fs0, answer, response, backup, packaged,
                   updated_project, gen_vars>>

\* a main that gives up when the package cannot be made
main_package_fatal ==
    /\ entry = "main" /\ pc = "package"
    /\ \E io \in PackageIO(fs) :
          LET r == package_skill(fs, io)
          IN /\ fs' = r.fs /\ packaged' = r.ret
             /\ stdout' = stdout \o <<"[STEP 3] Packaging skill...">> \o r.out
             /\ IF r.ret THEN pc' = "update" /\ UNCHANGED exit_code ELSE Exit(1)
    /\ UNCHANGED <<entry, fs0, answer, response, backup, success,
                   updated_project, sync_faults, gen_vars>>

main_package ==
    /\ entry = "main" /\ pc = "package"
    /\ \E io \in PackageIO(fs) :
          LET r == package_skill(fs, io)
          IN /\ fs' = r.fs /\ packaged' = r.ret
             /\ stdout' = stdout \o <<"[STEP 3] Packaging skill...">> \o r.out
    /\ pc' = "update"
    /\ UNCHANGED <<entry, fs0, answer, response, backup, success,
                   updated_project, sync_faults, exit_code, gen_vars>>

\* a main that updates the project whether or not the package was made
main_update_always ==
    /\ entry = "main" /\ pc = "update"
    /\ \E io \in CopyFileIO :
          LET r == update_project_package(fs, io)
          IN /\ fs' = r.fs /\ updated_project' = r.ret
             /\ stdout' = stdout \o <<"[STEP 4] Updating project package...">> \o r.out
    /\ pc' = "summary"
    /\ UNCHANGED <<entry, fs0, answer, response, backup, success, packaged,
                   sync_faults, exit_code, gen_vars>>

main_update ==
    /\ entry = "main" /\ pc = "update"
    /\ IF packaged
       THEN \E io \in CopyFileIO :
               LET r == update_project_package(fs, io)
               IN /\ fs' = r.fs /\ updated_project' = r.ret
                  /\ stdout' = stdout \o <<"[STEP 4] Updating project package...">>
                                    \o r.out
       ELSE /\ stdout' = stdout \o <<"[STEP 4] Updating project package...">>
            /\ updated_project' = FALSE
            /\ UNCHANGED fs
    /\ pc' = "summary"
    /\ UNCHANGED <<entry, fs0, answer, response, backup, success, packaged,
                   sync_faults, exit_code, gen_vars>>

main_summary ==
    /\ entry = "main" /\ pc = "summary"
    /\ stdout' = stdout \o show_summary(success, packaged, updated_project)
                    \o (IF backup # None THEN <<"[INFO] Backup saved to: ">> ELSE <<>>)
                    \o <<"[NEXT STEPS]">>
    /\ Exit(0)
    /\ UNCHANGED <<entry, fs, fs0, answer, response, backup, success, packaged,
                   updated_project, sync_faults, gen_vars>>

\* sync_skill_files called on its own, as a caller of the module would
call_sync_skill_files ==
    /\ entry = "sync_skill_files" /\ pc = "call"
    /\ \E io \in SyncIO(fs) :
          LET r == sync_skill_files(fs, io)
          IN /\ fs' = r.fs
             /\ sync_faults' = Faults(io)
             /\ success' = (~r.raised /\ r.ret)
             /\ stdout' = stdout \o r.out
             /\ pc' = IF r.raised THEN "raised" ELSE "returned"
    /\ UNCHANGED <<entry, fs0, answer, response, backup, packaged,
                   updated_project, exit_code, gen_vars>>

(* ------------------------- create_workflow.py ------------------------- *)
\* A text is a sequence of lines and a line a sequence of pieces, written one
\* after the other; an f-string line is cut at its placeholder, and a "/"
\* next to the placeholder is a piece of its own.

\* create_workflow.py lines 16-44
workflow_vanilla ==
    << <<"name: Deploy to GitHub Pages">>,
       <<"">>,
       <<"on:">>,
       <<"  push:">>,
       <<"    branches: [ main ]">>,
       <<"">>,
       <<"permissions:">>,
       <<"  contents: write">>,
       <<"  pages: write">>,
       <<"  id-token: write">>,
       <<"">>,
       <<"jobs:">>,
       <<"  deploy:">>,
       <<"    runs-on: ubuntu-latest">>,
       <<"    steps:">>,
       <<"      - uses: actions/checkout@v4">>,
       <<"">>,
       <<"      - name: Setup Pages">>,
       <<"        uses: actions/configure-pages@v4">>,
       <<"">>,
       <<"      - name: Upload artifact">>,
       <<"        uses: actions/upload-pages-artifact@v3">>,
       <<"        with:">>,
       <<"          path: '.'">>,
       <<"">>,
       <<"      - name: Deploy to GitHub Pages">>,
       <<"        id: deployment">>,
       <<"        uses: actions/deploy-pages@v4">> >>

\* create_workflow.py lines 47-89
workflow_react_vite(repo_name) ==
    << <<"name: Deploy to GitHub Pages">>,
       <<"">>,
       <<"on:">>,
       <<"  push:">>,
       <<"    branches: [ main ]">>,
       <<"">>,
       <<"permissions:">>,
       <<"  contents: write">>,
       <<"  pages: write">>,
       <<"  id-token: write">>,
       <<"">>,
       <<"jobs:">>,
       <<"  build-and-deploy:">>,
       <<"    runs-on: ubuntu-latest">>,
       <<"    steps:">>,
       <<"      - uses: actions/checkout@v4">>,
       <<"">>,
       <<"      - name: Setup Node.js">>,
       <<"        uses: actions/setup-node@v4">>,
       <<"        with:">>,
       <<"          node-version: '20'">>,
       <<"          cache: 'npm'">>,
       <<"">>,
       <<"      - name: Install dependencies">>,
       <<"        run: npm ci">>,
       <<"">>,
       <<"      - name: Build">>,
       <<"        run: npm run build">>,
       <<"        env:">>,
       <<"          VITE_BASE_URL: ", "/", repo_name, "/">>,
       <<"">>,
       <<"      - name: Setup Pages">>,
       <<"        uses: actions/configure-pages@v4">>,
       <<"">>,
       <<"      - name: Upload artifact">>,
       <<"        uses: actions/upload-pages-artifact@v3">>,
       <<"        with:">>,
       <<"          path: dist">>,
       <<"">>,
       <<"      - name: Deploy to GitHub Pages">>,
       <<"        id: deployment">>,
       <<"        uses: actions/deploy-pages@v4">> >>

\* create_workflow.py lines 92-134
workflow_cra(repo_name) ==
    << <<"name: Deploy to GitHub Pages">>,
       <<"">>,
       <<"on:">>,
       <<"  push:">>,
       <<"    branches: [ main ]">>,
       <<"">>,
       <<"permissions:">>,
       <<"  contents: write">>,
       <<"  pages: write">>,
       <<"  id-token: write">>,
       <<"">>,
       <<"jobs:">>,
       <<"  build-and-deploy:">>,
       <<"    runs-on: ubuntu-latest">>,
       <<"    steps:">>,
       <<"      - uses: actions/checkout@v4">>,
       <<"">>,
       <<"      - name: Setup Node.js">>,
       <<"        uses: actions/setup-node@v4">>,
       <<"        with:">>,
       <<"          node-version: '20'">>,
       <<"          cache: 'npm'">>,
       <<"">>,
       <<"      - name: Install dependencies">>,
       <<"        run: npm ci">>,
       <<"">>,
       <<"      - name: Build">>,
       <<"        run: npm run build">>,
       <<"        env:">>,
       <<"          PUBLIC_URL: ", "/", repo_name, "/">>,
       <<"">>,
       <<"      - name: Setup Pages">>,
       <<"        uses: actions/configure-pages@v4">>,
       <<"">>,
       <<"      - name: Upload artifact">>,
       <<"        uses: actions/upload-pages-artifact@v3">>,
       <<"        with:">>,
       <<"          path: build">>,
       <<"">>,
       <<"      - name: Deploy to GitHub Pages">>,
       <<"        id: deployment">>,
       <<"        uses: actions/deploy-pages@v4">> >>

\* a vue branch pasted from the react-vite one
workflow_vue_with_base(repo_name) == workflow_react_vite(repo_name)

\* create_workflow.py lines 137-177
workflow_vue(repo_name) ==
    << <<"name: Deploy to GitHub Pages">>,
       <<"">>,
       <<"on:">>,
       <<"  push:">>,
       <<"    branches: [ main ]">>,
       <<"">>,
       <<"permissions:">>,
       <<"  contents: write">>,
       <<"  pages: write">>,
       <<"  id-token: write">>,
       <<"">>,
       <<"jobs:">>,
       <<"  build-and-deploy:">>,
       <<"    runs-on: ubuntu-latest">>,
       <<"    steps:">>,
       <<"      - uses: actions/checkout@v4">>,
       <<"">>,
       <<"      - name: Setup Node.js">>,
       <<"        uses: actions/setup-node@v4">>,
       <<"        with:">>,
       <<"          node-version: '20'">>,
       <<"          cache: 'npm'">>,
       <<"">>,
       <<"      - name: Install dependencies">>,
       <<"        run: npm ci">>,
       <<"">>,
       <<"      - name: Build">>,
       <<"        run: npm run build">>,
       <<"">>,
       <<"      - name: Setup Pages">>,
       <<"        uses: actions/configure-pages@v4">>,
       <<"">>,
       <<"      - name: Upload artifact">>,
       <<"        uses: actions/upload-pages-artifact@v3">>,
       <<"        with:">>,
       <<"          path: dist">>,
       <<"">>,
       <<"      - name: Deploy to GitHub Pages">>,
       <<"        id: deployment">>,
       <<"        uses: actions/deploy-pages@v4">> >>

\* create_workflow.py lines 180-220
workflow_nextjs(repo_name) ==
    << <<"name: Deploy to GitHub Pages">>,
       <<"">>,
       <<"on:">>,
       <<"  push:">>,
       <<"    branches: [ main ]">>,
       <<"">>,
       <<"permissions:">>,
       <<"  contents: write">>,
       <<"  pages: write">>,
       <<"  id-token: write">>,
       <<"">>,
       <<"jobs:">>,
       <<"  build-and-deploy:">>,
       <<"    runs-on: ubuntu-latest">>,
       <<"    steps:">>,
       <<"      - uses: actions/checkout@v4">>,
       <<"">>,
       <<"      - name: Setup Node.js">>,
       <<"        uses: actions/setup-node@v4">>,
       <<"        with:">>,
       <<"          node-version: '20'">>,
       <<"          cache: 'npm'">>,
       <<"">>,
       <<"      - name: Install dependencies">>,
       <<"        run: npm ci">>,
       <<"">>,
       <<"      - name: Build">>,
       <<"        run: npm run build">>,
       <<"">>,
       <<"      - name: Setup Pages">>,
       <<"        uses: actions/configure-pages@v4">>,
       <<"">>,
       <<"      - name: Upload artifact">>,
       <<"        uses: actions/upload-pages-artifact@v3">>,
       <<"        with:">>,
       <<"          path: out">>,
       <<"">>,
       <<"      - name: Deploy to GitHub Pages">>,
       <<"        id: deployment">>,
       <<"        uses: actions/deploy-pages@v4">> >>

ProjectTypes == {"vanilla", "react-vite", "cra", "vue", "nextjs"}

get_workflow_template(project_type, repo_name) ==
    IF project_type = "vanilla"
    THEN [raised |-> FALSE, workflow |-> workflow_vanilla, err |-> <<>>]
    ELSE IF project_type = "react-vite"
    THEN [raised |-> FALSE, workflow |-> workflow_react_vite(repo_name), err |-> <<>>]
    ELSE IF project_type = "cra"
    THEN [raised |-> FALSE, workflow |-> workflow_cra(repo_name), err |-> <<>>]
    ELSE IF project_type = "vue"
    THEN [raised |-> FALSE, workflow |-> workflow_vue(repo_name), err |-> <<>>]
    ELSE IF project_type = "nextjs"
    THEN [raised |-> FALSE, workflow |-> workflow_nextjs(repo_name), err |-> <<>>]
    ELSE [raised |-> TRUE, workflow |-> <<>>,
          err |-> <<"Unknown project type: ", project_type>>]

\* Path.cwd() / ".github" / "workflows" / "deploy.yml", the cwd being <<>>
DefaultOutput == <<".github", "workflows", "deploy.yml">>

NoText == [exists |-> FALSE, text |-> <<>>]

Text(t) == [exists |-> TRUE, text |-> t]

is_regular(gf, p) == p \in DOMAIN gf.files /\ gf.files[p].exists

Prefixes(p) == {SubSeq(p, 1, k) : k \in 0..Len(p)}

\* Path.mkdir(parents=True, exist_ok=True)
mkdir(gf, d) ==
    IF \E q \in Prefixes(d) : is_regular(gf, q)
    THEN [fs |-> gf, raised |-> TRUE,
          err |-> <<"[Errno 17] File exists: ">> \o d]
    ELSE [fs |-> [gf EXCEPT !.dirs = @ \cup Prefixes(d)], raised |-> FALSE,
          err |-> <<>>]

\* the file opened with "a": the text goes after what the file holds
write_append(old, workflow) == Text(old.text \o workflow)

\* open(output_path, "w") and f.write(workflow)
write_text(old, workflow) == Text(workflow)

create_workflow(gf, project_type, repo_name, output_path) ==
    LET made == mkdir(gf, Parent(output_path))
        tmpl == get_workflow_template(project_type, repo_name)
    IN IF made.raised THEN made
       ELSE IF tmpl.raised
            THEN [fs |-> made.fs, raised |-> TRUE, err |-> tmpl.err]
            ELSE IF output_path \in made.fs.dirs
                 THEN [fs |-> made.fs, raised |-> TRUE,
                       err |-> <<"[Errno 21] Is a directory: ">> \o output_path]
                 ELSE [fs |-> [made.fs EXCEPT !.files[output_path] =
                                  write_text(@, tmpl.workflow)],
                       raised |-> FALSE, err |-> <<>>]

\* main of create_workflow.py on sys.argv[1:]
workflow_main(gf, args) ==
    IF Len(args) < 2
    THEN [fs |-> gf, code |-> 1, stderr |-> <<>>]
    ELSE LET output_path == IF Len(args) > 2 THEN args[3] ELSE DefaultOutput
             r == create_workflow(gf, args[1], args[2], output_path)
         IN IF r.raised
            THEN [fs |-> r.fs, code |-> 1, stderr |-> <<"Error: ">> \o r.err]
            ELSE [fs |-> r.fs, code |-> 0, stderr |-> <<>>]

(* ------------------------------- system ------------------------------- *)

NoBackups == [ts \in Timestamps |-> NoDir]

BackupSets ==
    {NoBackups, [NoBackups EXCEPT !["20260101_120000"] = Dir(InstalledTree.entries)]}

FileSystems ==
    {f \in [source : {NoDir, SourceTree},
            dest : {NoDir, InstalledTree},
            skills_dir : BOOLEAN,
            backups : BackupSets,
            package : {NoFile, OldPackage},
            project_package : {NoFile, OldPackage}] :
        (f.dest.exists \/ f.package.exists \/ f.backups # NoBackups) => f.skills_dir}

IdleFS ==
    [source |-> NoDir, dest |-> NoDir, skills_dir |-> FALSE, backups |-> NoBackups,
     package |-> NoFile, project_package |-> NoFile]

Tags == ProjectTypes \cup {"angular"}

RepoNames == {"my-repo", "site"}

\* a file of the working directory, a path below a regular file, a directory
OutputArgs == {<<"deploy.yml">>, <<"README.md", "deploy.yml">>, <<"docs">>}

Argvs ==
    {<<>>} \cup {<<t>> : t \in Tags}
        \cup {<<t, r>> : t \in Tags, r \in RepoNames}
        \cup {<<t, r, o>> : t \in Tags, r \in RepoNames, o \in OutputArgs}

OldWorkflow == Text(<< <<"name: CI">> >>)

Readme == Text(<< <<"# project">> >>)

FreshDir ==
    [dirs |-> {<<>>, <<"docs">>},
     files |-> (<<"README.md">> :> Readme) @@ (<<"deploy.yml">> :> NoText)
                 @@ (DefaultOutput :> NoText)]

WorkingDirs ==
    {FreshDir,
     [FreshDir EXCEPT !.dirs = @ \cup Prefixes(Parent(DefaultOutput)),
                      !.files[DefaultOutput] = OldWorkflow]}

\* one invocation of create_workflow.py from the shell
run_create_workflow ==
    /\ entry = "create_workflow" /\ runs < MaxRuns
    /\ \E a \in Argvs :
          LET r == workflow_main(gfs, a)
          IN /\ argv' = a
             /\ gfs' = r.fs
             /\ exit_code' = r.code
             /\ stderr' = r.stderr
    /\ last' = [args |-> argv, code |-> exit_code, fs |-> gfs]
    /\ runs' = runs + 1
    /\ UNCHANGED <<entry, pc, sync_vars>>

Init ==
    /\ entry \in {"main", "sync_skill_files", "create_workflow"}
    /\ pc = CASE entry = "main" -> "check_source"
              [] entry = "sync_skill_files" -> "call"
              [] OTHER -> "shell"
    /\ exit_code = -1
    /\ fs \in IF entry = "create_workflow" THEN {IdleFS} ELSE FileSystems
    /\ fs0 = fs
    /\ answer = <<>>
    /\ response = <<>>
    /\ backup = None
    /\ success = FALSE
    /\ packaged = FALSE
    /\ updated_project = FALSE
    /\ stdout = <<>>
    /\ sync_faults = {}
    /\ argv = <<>>
    /\ gfs \in IF entry = "create_workflow" THEN WorkingDirs ELSE {FreshDir}
    /\ stderr = <<>>
    /\ runs = 0
    /\ last = [args |-> <<>>, code |-> -1, fs |-> gfs]

Next ==
    \/ main_check_source
    \/ main_prompt
    \/ main_backup
    \/ main_sync
    \/ main_package
    \/ main_update
    \/ main_summary
    \/ call_sync_skill_files
    \/ run_create_workflow

Spec == Init /\ [][Next]_vars

(* ------------------------------- claims ------------------------------- *)

Printed(m) == \E i \in DOMAIN stdout : stdout[i] = m

DestFiles == {e \in fs.dest.entries : e.kind = "file"}

MemberSet(f) == {f.members[i] : i \in DOMAIN f.members}

\* a typed line that is y or yes in any case, with white space around it
IsYes(l) ==
    \E i \in 1..Len(l), j \in 1..Len(l) :
        /\ i <= j
        /\ \A k \in 1..Len(l) : (k < i \/ k > j) => l[k] = " "
        /\ SubSeq(l, i, j) \in
              {<<"y">>, <<"Y">>}
                  \cup {<<a, b, c>> : a \in {"y", "Y"}, b \in {"e", "E"}, c \in {"s", "S"}}

\* the path create_workflow.py writes to for the arguments a
OutPath(a) == IF Len(a) > 2 THEN a[3] ELSE DefaultOutput

\* p can be written in gf: no regular file on the way to it, and not a directory
Writable(gf, p) ==
    /\ ~\E q \in Prefixes(Parent(p)) : is_regular(gf, q)
    /\ p \notin gf.dirs

\* C1: when the source directory does not exist, main exits with 1 at its own
\* check and sync_skill_files returns False, and in both cases the destination is
\* what it was before: not removed, not changed, not created.
C1_MissingSourceLeavesDestination ==
    ~fs0.source.exists =>
        /\ (entry = "main" /\ pc = "exit") =>
              /\ exit_code = 1
              /\ ~Printed("[STEP 2] Syncing skill files...")
              /\ fs.dest = fs0.dest /\ fs.skills_dir = fs0.skills_dir
        /\ (entry = "sync_skill_files" /\ pc # "call") =>
              /\ pc = "returned" /\ ~success
              /\ fs.dest = fs0.dest /\ fs.skills_dir = fs0.skills_dir

C1_Witness ==
    /\ entry = "sync_skill_files" /\ pc = "returned"
    /\ ~fs0.source.exists /\ fs0.dest.exists

\* C2: once the user has confirmed, the run ends with exit code 0 after the
\* summary when the Sync step succeeded, whatever Backup, Package and
\* UpdateProjectCopy did, and ends with exit code 1 without Package,
\* UpdateProjectCopy or Summary when the Sync step failed.
C2_OnlySyncFailureAborts ==
    (entry = "main" /\ pc = "exit" /\ Printed("[STEP 1] Creating backup...")) =>
        IF Printed("[OK] Synced skill files from ")
        THEN exit_code = 0 /\ Printed("SYNC SUMMARY")
        ELSE /\ exit_code = 1
             /\ ~Printed("[STEP 3] Packaging skill...")
             /\ ~Printed("[STEP 4] Updating project package...")
             /\ ~Printed("SYNC SUMMARY")
             /\ fs.package = fs0.package
             /\ fs.project_package = fs0.project_package

C2_Witness ==
    /\ entry = "main" /\ pc = "exit" /\ exit_code = 0
    /\ Printed("[ERROR] Failed to create backup: ")
    /\ Printed("[ERROR] Failed to package skill: ")

\* C3: when the line read at the prompt is not y or yes (white space trimmed,
\* case ignored), the tool has exited with code 0 and the file system is as it
\* was: no backup, destination, archive or project copy was touched.
C3_DeclinedChangesNothing ==
    (entry = "main" /\ answer # <<>> /\ ~IsYes(answer[1])) =>
        pc = "exit" /\ exit_code = 0 /\ fs = fs0

C3_Witness ==
    /\ entry = "main" /\ pc = "exit"
    /\ answer = << <<"y", "e", " ">> >>
    /\ fs0.dest.exists /\ fs0.package.exists

\* C4: when the summary is printed, it says SUCCESS and the destination is a
\* copy of the source; it says "Packaged: YES" exactly when the archive on disk
\* is the complete new archive of the destination; it says "Project: UPDATED"
\* exactly when the project's copy is that new archive; and when the package
\* failed, the project's copy is untouched and update_project_package printed
\* nothing.
C4_SummaryMatchesOutcomes ==
    (entry = "main" /\ Printed("SYNC SUMMARY")) =>
        LET new_archive ==
                /\ fs.package.exists /\ ~fs.package.torn /\ fs.package.mtime = "new"
                /\ Len(fs.package.members) = Cardinality(DestFiles)
            new_copy ==
                /\ fs.project_package.exists /\ ~fs.project_package.torn
                /\ fs.project_package.mtime = "new"
                /\ fs.project_package = fs.package
        IN /\ Printed("Status:      SUCCESS")
           /\ fs.dest = Dir(fs.source.entries)
           /\ Printed("Packaged:    YES") <=> new_archive
           /\ Printed("Project:     UPDATED") <=> new_copy
           /\ ~Printed("Packaged:    YES") =>
                 /\ ~Printed("Project:     UPDATED")
                 /\ fs.project_package = fs0.project_package
                 /\ ~Printed("[OK] Updated project package: ")
                 /\ ~Printed("[ERROR] Failed to update project package: ")
                 /\ ~Printed("[WARNING] Package not found: ")

C4_Witness ==
    /\ entry = "main" /\ Printed("SYNC SUMMARY")
    /\ Printed("[ERROR] Failed to package skill: ")
    /\ fs.package.exists /\ fs0.project_package.exists

\* C5 as stated: after a Package step that succeeded, the old archive is gone
\* and the new one holds one member per regular file of the destination, named
\* by the file's path relative to the parent of the destination, so that every
\* name begins with the destination directory's name.
C5_MembersRelativeToParent ==
    (entry = "main" /\ Printed("[OK] Packaged skill to: ")) =>
        /\ fs.package.exists /\ fs.package.mtime = "new"
        /\ Len(fs.package.members) = Cardinality(DestFiles)
        /\ MemberSet(fs.package) =
              {[name |-> <<Name(get_paths.dest_skill)>> \o e.path, data |-> e.data] :
                   e \in DestFiles}

\* C5 as amended: after a Package step that succeeded, the old archive is gone
\* and the new one holds one member per regular file of the destination, named
\* by the file's path relative to the destination directory itself, so that no
\* name begins with the destination directory's name.
C5_MembersRelativeToDestination ==
    (entry = "main" /\ Printed("[OK] Packaged skill to: ")) =>
        /\ fs.package.exists /\ fs.package.mtime = "new"
        /\ Len(fs.package.members) = Cardinality(DestFiles)
        /\ MemberSet(fs.package) =
              {[name |-> e.path, data |-> e.data] : e \in DestFiles}
        /\ \A m \in MemberSet(fs.package) : m.name[1] # Name(get_paths.dest_skill)

C5_Witness ==
    /\ entry = "main" /\ pc = "update" /\ Printed("[OK] Packaged skill to: ")
    /\ fs0.package.exists /\ fs0.dest.exists

\* C6: after an invocation of the generator with a project type outside the
\* five, the exit code is 1, the error printed names the project type, and no
\* file was created or modified.
C6_UnknownTagNamedAndNothingWritten ==
    (entry = "create_workflow" /\ runs > 0 /\ Len(argv) >= 2
        /\ argv[1] \notin ProjectTypes) =>
        /\ exit_code = 1
        /\ \E i \in DOMAIN stderr : stderr[i] = argv[1]
        /\ gfs.files = last.fs.files

\* C7: the file a successful invocation wrote holds the repository name once,
\* between two "/", for react-vite and cra, and for vanilla, vue and nextjs it
\* holds the text every repository name gives and no repository name.
C7_RepoNameOnlyInPathFragment ==
    (entry = "create_workflow" /\ runs > 0 /\ exit_code = 0) =>
        LET t == argv[1]
            r == argv[2]
            text == gfs.files[OutPath(argv)].text
            at == {<<n, i>> \in (1..Len(text)) \X (1..4) :
                      i <= Len(text[n]) /\ text[n][i] = r}
        IN /\ \A n \in 1..Len(text) : Len(text[n]) <= 4
           /\ t \in {"react-vite", "cra"} =>
                 /\ Cardinality(at) = 1
                 /\ \A x \in at :
                       /\ 1 < x[2] /\ x[2] < Len(text[x[1]])
                       /\ text[x[1]][x[2] - 1] = "/"
                       /\ text[x[1]][x[2] + 1] = "/"
                 /\ \A r2 \in RepoNames : \A n \in 1..Len(text) :
                       get_workflow_template(t, r2).workflow[n] =
                           [i \in 1..Len(text[n]) |->
                               IF <<n, i>> \in at THEN r2 ELSE text[n][i]]
           /\ t \in {"vanilla", "vue", "nextjs"} =>
                 /\ at = {}
                 /\ \A r2 \in RepoNames : get_workflow_template(t, r2).workflow = text

C7_Witness ==
    /\ entry = "create_workflow" /\ runs > 0 /\ exit_code = 0
    /\ argv[1] = "cra" /\ argv[2] = "site"

\* C8: when the destination does not exist before the run, the source exists and
\* neither making the destination's parent nor copying the source fails, then
\* after the Sync step no backup was made or returned, nothing was removed, and
\* the destination exists as a copy of the source.
C8_FreshDestination ==
    (entry = "main" /\ ~fs0.dest.exists /\ fs0.source.exists
        /\ Printed("[STEP 2] Syncing skill files...")
        /\ sync_faults \cap {"mkdir", "copytree"} = {}) =>
        /\ backup = None
        /\ fs.backups = fs0.backups
        /\ Printed("[INFO] No existing skill found, skipping backup")
        /\ ~Printed("[INFO] Removing existing skill directory: ")
        /\ success
        /\ fs.dest.exists /\ fs.dest.entries = fs0.source.entries

C8_Witness ==
    /\ entry = "main" /\ pc = "package"
    /\ ~fs0.dest.exists /\ ~fs0.skills_dir /\ fs0.source.exists
    /\ sync_faults = {}

\* C9: when the generator has run twice in a row with the same recognized
\* project type, repository name and output path, the path being one that can be
\* written, both runs exited with 0 and the file holds after the second run
\* what it held after the first: the template's text, once.
C9_SecondRunSameFile ==
    (entry = "create_workflow" /\ runs >= 2 /\ argv = last.args /\ Len(argv) >= 2
        /\ argv[1] \in ProjectTypes /\ Writable(last.fs, OutPath(argv))) =>
        /\ last.code = 0 /\ exit_code = 0
        /\ gfs.files[OutPath(argv)].exists
        /\ gfs.files[OutPath(argv)] = last.fs.files[OutPath(argv)]
        /\ gfs.files[OutPath(argv)].text =
              get_workflow_template(argv[1], argv[2]).workflow

C9_Witness ==
    /\ entry = "create_workflow" /\ runs = 2 /\ argv = last.args
    /\ Len(argv) = 2 /\ argv[1] = "react-vite" /\ exit_code = 0

\* C10: whenever the Sync step has removed an installed destination, the Backup
\* step returned a backup path and that backup is a copy of what was installed.
C10_BackupBeforeRemoval ==
    (entry = "main" /\ Printed("[INFO] Removing existing skill directory: ")
        /\ "rmtree" \notin sync_faults) =>
        /\ backup # None
        /\ fs.backups[backup] = Dir(fs0.dest.entries)

====
